---- MODULE Spec2Model ----
(***************************************************************************)
(* Ingestion, chunking and self-indexing pipeline of the MCP knowledge     *)
(* base server.                                                            *)
(*                                                                         *)
(* Part 1: SelfIndexingService (the scheduler): the isIndexing flag, the   *)
(* interval timer, startAutoIndexing / stopAutoIndexing / triggerIndexing  *)
(* and the four sweeps of performIndexing.  Every await of the service is  *)
(* a point where another callback (a timer tick, a manual trigger, a stop) *)
(* may run, so every action below is the code between two awaits.          *)
(*                                                                         *)
(* Part 2: chunkText and DocumentService.addDocumentWithChunks: the        *)
(* sliding window over the content, the batch embedding of the chunks, the *)
(* chunk metadata, the whole-document embedding and the store write.       *)
(*                                                                         *)
(* Part 3: EmbeddingService.generateEmbedding / generateEmbeddings and the *)
(* retryWithBackoff loop around the provider call.                         *)
(*                                                                         *)
(* Part 4: DocumentService.addDocument (called directly or by the          *)
(* knowledge_base_add tool handler) and DocumentService.updateDocument     *)
(* and deleteDocument over the documents WeaviateService holds, and        *)
(* searchDocuments running concurrently with them.                         *)
(*                                                                         *)
(* Part 5: calculateCosineSimilarity, and getFilesRecursively with the     *)
(* per-file loop of indexDirectory.                                        *)
(***************************************************************************)
EXTENDS Integers, Sequences, FiniteSets, TLC

\* ---------------------------------------------------------------- bounds
MaxStarts == 2      \* startAutoIndexing() calls made by the environment
MaxSlots  == 2      \* performIndexing() invocations that may be suspended at once
MaxFiles  == 1      \* files getFilesRecursively() returns for one directory
MaxLen    == 5      \* length of the content handed to addDocumentWithChunks
MaxChunkSize == 3   \* chunkSize and overlap handed to addDocumentWithChunks
MaxRetries == 2     \* config.retries of the embedding service
MaxBatch   == 3     \* texts handed to one generateEmbeddings call
MaxTextLen == 1     \* length of each text of a batch
MaxOps     == 2     \* DocumentService calls made one after the other
MaxSearches == 1    \* searchDocuments calls made beside them
MaxDim     == 2     \* length of the vectors of calculateCosineSimilarity
MaxCoord   == 1     \* their coordinates are integers -MaxCoord..MaxCoord
MaxEntries == 3     \* directory entries of the tree getFilesRecursively walks

\* ---------------------------------------------------------------- state
VARIABLES
  enabled,           \* config.selfIndexing.enabled
  isIndexing,        \* SelfIndexingService.isIndexing
  indexingInterval,  \* SelfIndexingService.indexingInterval (0 = undefined)
  liveTimers,        \* interval timers created by setInterval and not cleared
  startPc,           \* position of each startAutoIndexing() call
  pass,              \* the performIndexing() invocations past the guard
  out,               \* the observable effect of the last step (log line, store call)
  stopCalled         \* stopAutoIndexing() has been called since the last startAutoIndexing()

schedVars == <<enabled, isIndexing, indexingInterval, liveTimers, startPc,
               pass, out, stopCalled>>

VARIABLES
  awcPc,             \* position of the addDocumentWithChunks() call
  content,           \* request.content, a sequence of characters
  chunkSize,         \* the chunkSize argument
  overlap,           \* the overlap argument
  start,             \* chunkText: the local `start`
  chunks,            \* chunkText: the local `chunks`, then textChunks
  slices,            \* chunkText: the <<start, end>> handed to each text.slice
  chunkEmbeddings,   \* the vectors returned by generateChunkEmbeddings
  docChunks,         \* document.chunks
  docEmbedding,      \* document.embedding
  stored,            \* weaviateService.addDocument(document) has succeeded
  awcError           \* the code of the AppError the call threw ("" = none)

chunkVars == <<awcPc, content, chunkSize, overlap, start, chunks, slices,
               chunkEmbeddings, docChunks, docEmbedding, stored, awcError>>

VARIABLES
  embPc,             \* position of the generateEmbedding(s) call
  embMode,           \* "single": generateEmbedding, "batch": generateEmbeddings
  embTexts,          \* the text (a one-element sequence) or the texts argument
  embRetries,        \* this.config.retries
  embInputs,         \* the sanitized texts handed to the provider
  embRetry,          \* retryWithBackoff: attempt, invocations of fn, delays waited
  embResult,         \* the vectors returned
  embError           \* the code of the AppError the call threw ("" = none)

embVars == <<embPc, embMode, embTexts, embRetries, embInputs, embRetry,
             embResult, embError>>

VARIABLES
  docPc,             \* position of the DocumentService call
  docOp,             \* "add" or "update" ("none" before the first call)
  docVia,            \* "tool": through MCPProtocol.handleAdd, "direct" otherwise
  docReq,            \* the arguments of the call
  existingDocument,  \* updateDocument: the local existingDocument
  updateData,        \* updateDocument: the local updateData
  doc,               \* the document built, then returned
  docError,          \* the code of the AppError the call threw ("" = none)
  store,             \* the objects WeaviateService holds, by id
  clock,             \* the time, one tick per call
  storeCalls,        \* WeaviateService methods invoked by the call
  storeWrites        \* objects created or updated in the store by the call

docVars == <<docPc, docOp, docVia, docReq, existingDocument, updateData, doc,
             docError, store, clock, storeCalls, storeWrites>>

VARIABLES
  srchPc,            \* outcome of the last searchDocuments call
  srchCalls,         \* searchDocuments calls made
  srchQuery,         \* its query object
  srchResults,       \* the results it returned
  srchError          \* the code of the AppError it threw ("" = none)

srchVars == <<srchPc, srchCalls, srchQuery, srchResults, srchError>>

VARIABLES
  cosPc,             \* position of the calculateCosineSimilarity call
  vectorA,           \* its first argument
  vectorB,           \* its second argument
  cosResult          \* what it returned or threw

cosVars == <<cosPc, vectorA, vectorB, cosResult>>

VARIABLES
  walkPc,            \* position of the indexDirectory call
  walkStack,         \* the getFilesRecursively invocations, innermost last
  walkBudget,        \* directory entries the file system has yet to show
  walkExpected,      \* allowlisted regular files in the listings read
  walkEntered,       \* the directories getFilesRecursively was called on
  walkFiles,         \* the files the outermost invocation returned
  walkIndexed        \* the indexFile calls made, with their outcome

walkVars == <<walkPc, walkStack, walkBudget, walkExpected, walkEntered,
              walkFiles, walkIndexed>>

auxVars == <<srchVars, cosVars, walkVars>>

vars == <<schedVars, chunkVars, embVars, docVars, auxVars>>

Starts == 1..MaxStarts
Slots  == 1..MaxSlots

\* The order in which performIndexing awaits the sweeps.
Sweeps == <<"documentation", "code", "history", "structure">>

\* docPaths of indexDocumentation and configFiles of indexCodeFiles.
NumDocPaths    == 4
NumConfigFiles == 4

FreeSlot == [pc |-> "free", k |-> 0, origin |-> "none", owner |-> 0,
             started |-> << >>, failed |-> FALSE]

Running == {p \in Slots : pass[p].pc # "free"}

StartsCalled == {s \in Starts : startPc[s] # "new"}

SchedInit ==
  /\ enabled \in BOOLEAN
  /\ isIndexing = FALSE
  /\ indexingInterval = 0
  /\ liveTimers = {}
  /\ startPc = [s \in Starts |-> "new"]
  /\ pass = [p \in Slots |-> FreeSlot]
  /\ out = "none"
  /\ stopCalled = FALSE

\* ------------------------------------------------------- performIndexing
\* The guard of performIndexing: `if (this.isIndexing) return`.
GuardIgnored == FALSE
AlreadyIndexing == isIndexing

\* The skipped invocation: logs and returns, nothing else.
SkipInsideTry ==
  /\ isIndexing' = FALSE
  /\ out' = "skipping"
  /\ UNCHANGED pass
Skip ==
  /\ out' = "skipping"
  /\ UNCHANGED <<isIndexing, pass>>

\* An invocation that passes the guard: sets the flag and runs synchronously
\* into indexDocumentation up to its first await.
BeginPass(p, origin, owner) ==
  /\ pass[p].pc = "free"
  /\ isIndexing' = TRUE
  /\ pass' = [pass EXCEPT ![p] = [pc |-> "docFile", k |-> 1, origin |-> origin,
                                  owner |-> owner,
                                  started |-> <<"documentation">>,
                                  failed |-> FALSE]]
  /\ out' = "starting"

\* performIndexing(): either skipped or begun in some free invocation slot.
PerformIndexing(origin, owner) ==
  IF AlreadyIndexing
    THEN Skip
    ELSE \E p \in Slots : BeginPass(p, origin, owner)

\* Program points of a pass, grouped by the sweep they belong to.
SweepOf(pc) ==
  CASE pc \in {"docFile", "docDir", "docDirFile"} -> "documentation"
    [] pc \in {"codeDir", "codeDirFile", "codeCfg"} -> "code"
    [] pc \in {"histLog", "histLogAdd", "histBranch", "histStatus",
               "histStatusAdd"} -> "history"
    [] pc \in {"structGen", "structAdd"} -> "structure"
    [] OTHER -> "none"

\* Continue the pass at program point `next`; entering another sweep is
\* recorded in `started`.
Advance(rec, next) ==
  [rec EXCEPT !.pc = next, !.k = 1,
              !.started = IF SweepOf(next) \in {"none", SweepOf(rec.pc)}
                            THEN @ ELSE Append(@, SweepOf(next))]

\* A failure inside a sweep is caught inside that sweep (console.warn) and the
\* pass goes on with the continuation `cont`.
Propagated(cont) == [cont EXCEPT !.failed = TRUE, !.pc = "finally", !.k = 0]
Caught(cont) == [cont EXCEPT !.failed = TRUE]

\* One step of a pass whose outcome is `ok` or a caught failure.
Settle(p, ok, contOk, contFail, effect) ==
  /\ pass' = [pass EXCEPT ![p] = IF ok THEN contOk ELSE Caught(contFail)]
  /\ out' = IF ok THEN effect ELSE "warn"
  /\ UNCHANGED <<enabled, isIndexing, indexingInterval, liveTimers, startPc,
                 stopCalled>>
  /\ UNCHANGED <<chunkVars, embVars, docVars, auxVars>>

\* indexDocumentation: indexFile(path) for each of docPaths; a failure of
\* readFile or addDocument is caught per path.
DocFile(p) ==
  /\ pass[p].pc = "docFile"
  /\ LET rec  == pass[p]
         cont == IF rec.k < NumDocPaths THEN [rec EXCEPT !.k = rec.k + 1]
                                        ELSE Advance(rec, "docDir")
     IN \E ok \in BOOLEAN : Settle(p, ok, cont, cont, "addDocument")

\* indexDirectory(dir): getFilesRecursively never throws; it returns the
\* files it found (none when readdir failed).
ScanDir(p, at, files, after) ==
  /\ pass[p].pc = at
  /\ \E n \in 0..MaxFiles :
       LET rec  == pass[p]
           cont == IF n = 0 THEN Advance(rec, after)
                            ELSE [Advance(rec, files) EXCEPT !.k = n]
       IN Settle(p, TRUE, cont, cont, "io")

\* indexDirectory(dir): indexFile(file) for each file found, a failure caught
\* per file; k counts the files left.
DirFile(p, at, after) ==
  /\ pass[p].pc = at
  /\ LET rec  == pass[p]
         cont == IF rec.k > 1 THEN [rec EXCEPT !.k = rec.k - 1]
                              ELSE Advance(rec, after)
     IN \E ok \in BOOLEAN : Settle(p, ok, cont, cont, "addDocument")

\* indexCodeFiles: indexFile(file) for each of configFiles.
CodeCfg(p) ==
  /\ pass[p].pc = "codeCfg"
  /\ LET rec  == pass[p]
         cont == IF rec.k < NumConfigFiles THEN [rec EXCEPT !.k = rec.k + 1]
                                           ELSE Advance(rec, "histLog")
     IN \E ok \in BOOLEAN : Settle(p, ok, cont, cont, "addDocument")

\* indexDevelopmentHistory: one try block around the three git commands and
\* the two addDocument calls; any failure ends the sweep.
HistLog(p) ==
  /\ pass[p].pc = "histLog"
  /\ \E ok \in BOOLEAN, empty \in BOOLEAN :
       Settle(p, ok,
              Advance(pass[p], IF empty THEN "histBranch" ELSE "histLogAdd"),
              Advance(pass[p], "structGen"), "io")

HistLogAdd(p) ==
  /\ pass[p].pc = "histLogAdd"
  /\ \E ok \in BOOLEAN :
       Settle(p, ok, Advance(pass[p], "histBranch"),
              Advance(pass[p], "structGen"), "addDocument")

HistBranch(p) ==
  /\ pass[p].pc = "histBranch"
  /\ \E ok \in BOOLEAN :
       Settle(p, ok, Advance(pass[p], "histStatus"),
              Advance(pass[p], "structGen"), "io")

HistStatus(p) ==
  /\ pass[p].pc = "histStatus"
  /\ \E ok \in BOOLEAN, empty \in BOOLEAN :
       Settle(p, ok,
              Advance(pass[p], IF empty THEN "structGen" ELSE "histStatusAdd"),
              Advance(pass[p], "structGen"), "io")

HistStatusAdd(p) ==
  /\ pass[p].pc = "histStatusAdd"
  /\ \E ok \in BOOLEAN :
       Settle(p, ok, Advance(pass[p], "structGen"),
              Advance(pass[p], "structGen"), "addDocument")

\* indexProjectStructure: generateProjectStructure never throws; a failure
\* of addDocument is caught.
StructGen(p) ==
  /\ pass[p].pc = "structGen"
  /\ Settle(p, TRUE, Advance(pass[p], "structAdd"),
            Advance(pass[p], "structAdd"), "io")

StructAdd(p) ==
  /\ pass[p].pc = "structAdd"
  /\ \E ok \in BOOLEAN :
       Settle(p, ok, Advance(pass[p], "finally"),
              Advance(pass[p], "finally"), "addDocument")

\* The end of performIndexing: the try block is left, the finally clause
\* clears the flag and the caller awaiting the pass resumes.
FlagLeftSet == isIndexing
FlagCleared == FALSE

Finally(p) ==
  /\ pass[p].pc = "finally"
  /\ isIndexing' = FlagCleared
  /\ pass' = [pass EXCEPT ![p] = FreeSlot]
  /\ startPc' = IF pass[p].origin = "initial"
                  THEN [startPc EXCEPT ![pass[p].owner] = "resume"]
                  ELSE startPc
  /\ out' = "completed"
  /\ UNCHANGED <<enabled, indexingInterval, liveTimers, stopCalled>>
  /\ UNCHANGED <<chunkVars, embVars, docVars, auxVars>>

PassStep(p) ==
  \/ DocFile(p)
  \/ ScanDir(p, "docDir", "docDirFile", "codeDir")
  \/ DirFile(p, "docDirFile", "codeDir")
  \/ ScanDir(p, "codeDir", "codeDirFile", "codeCfg")
  \/ DirFile(p, "codeDirFile", "codeCfg")
  \/ CodeCfg(p)
  \/ HistLog(p)
  \/ HistLogAdd(p)
  \/ HistBranch(p)
  \/ HistStatus(p)
  \/ HistStatusAdd(p)
  \/ StructGen(p)
  \/ StructAdd(p)
  \/ Finally(p)

\* ------------------------------------------------------ the service's API
\* startAutoIndexing(): no-op when disabled, otherwise the initial
\* performIndexing() is awaited before the timer is created.
StartAutoIndexing(s) ==
  /\ startPc[s] = "new"
  /\ \A r \in Starts : r < s => startPc[r] # "new"
  /\ stopCalled' = FALSE
  /\ UNCHANGED <<enabled, indexingInterval, liveTimers>>
  /\ UNCHANGED <<chunkVars, embVars, docVars, auxVars>>
  /\ IF ~enabled
       THEN /\ startPc' = [startPc EXCEPT ![s] = "done"]
            /\ out' = "disabled"
            /\ UNCHANGED <<isIndexing, pass>>
       ELSE /\ PerformIndexing("initial", s)
            /\ startPc' = [startPc EXCEPT ![s] =
                             IF AlreadyIndexing THEN "resume" ELSE "initial"]

\* startAutoIndexing() after its await: setInterval, the handle is stored.
SetTimer(s) ==
  /\ startPc[s] = "resume"
  /\ indexingInterval' = s
  /\ liveTimers' = liveTimers \cup {s}
  /\ startPc' = [startPc EXCEPT ![s] = "done"]
  /\ out' = "timerSet"
  /\ UNCHANGED <<enabled, isIndexing, pass, stopCalled>>
  /\ UNCHANGED <<chunkVars, embVars, docVars, auxVars>>

\* stopAutoIndexing(): clears the stored timer, if there is one.
StopAborts ==
  /\ isIndexing' = FALSE
  /\ pass' = [p \in Slots |-> FreeSlot]
StopLeavesPass == UNCHANGED <<isIndexing, pass>>

StopAutoIndexing ==
  /\ stopCalled' = (StartsCalled # {})
  /\ IF indexingInterval # 0
       THEN /\ liveTimers' = liveTimers \ {indexingInterval}
            /\ indexingInterval' = 0
            /\ out' = "stopped"
       ELSE /\ out' = "stopNoTimer"
            /\ UNCHANGED <<indexingInterval, liveTimers>>
  /\ StopLeavesPass
  /\ UNCHANGED <<enabled, startPc>>
  /\ UNCHANGED <<chunkVars, embVars, docVars, auxVars>>

\* The interval callback of a live timer.
TimerTick(t) ==
  /\ t \in liveTimers
  /\ PerformIndexing("timer", t)
  /\ UNCHANGED <<enabled, indexingInterval, liveTimers, startPc, stopCalled>>
  /\ UNCHANGED <<chunkVars, embVars, docVars, auxVars>>

\* triggerIndexing(): the manual trigger.
TriggerIndexing ==
  /\ PerformIndexing("manual", 0)
  /\ UNCHANGED <<enabled, indexingInterval, liveTimers, startPc, stopCalled>>
  /\ UNCHANGED <<chunkVars, embVars, docVars, auxVars>>

SchedNext ==
  \/ \E s \in Starts : StartAutoIndexing(s)
  \/ \E s \in Starts : SetTimer(s)
  \/ StopAutoIndexing
  \/ \E t \in Starts : TimerTick(t)
  \/ TriggerIndexing
  \/ \E p \in Slots : PassStep(p)

\* ------------------------------------------------------------ chunkText
Min(a, b) == IF a < b THEN a ELSE b
Max(a, b) == IF a > b THEN a ELSE b

\* The characters contents are made of: a word character, white space and a
\* symbol that sanitizeText strips.
Alphabet == {"a", " ", "#"}

\* String.prototype.slice(from, to): a negative index counts from the end,
\* indices are clamped to the string, an empty range gives "".
Slice(text, from, to) ==
  LET len == Len(text)
      f   == IF from < 0 THEN Max(len + from, 0) ELSE Min(from, len)
      t   == IF to < 0 THEN Max(len + to, 0) ELSE Min(to, len)
  IN IF f < t THEN SubSeq(text, f + 1, t) ELSE << >>

\* The chunks array outgrows what the runtime can allocate.
MaxChunks == MaxLen + 2

\* No call of addDocumentWithChunks is in progress.
ChunkIdle ==
  /\ awcPc = "idle"
  /\ content = << >>
  /\ chunkSize = 1
  /\ overlap = 0
  /\ start = 0
  /\ chunks = << >>
  /\ slices = << >>
  /\ chunkEmbeddings = << >>
  /\ docChunks = << >>
  /\ docEmbedding = "none"
  /\ stored = FALSE
  /\ awcError = ""

\* The document of the chunking scenario: 2,500 characters, the default
\* chunkSize and overlap of addDocumentWithChunks.
DefaultChunkSize  == 1000
DefaultOverlap    == 200
ScenarioContent   == [i \in 1..2500 |-> "a"]

Contents == UNION {[1..n -> Alphabet] : n \in 0..MaxLen}

\* addDocumentWithChunks(request, chunkSize, overlap) is called.
ChunkInit ==
  /\ awcPc = "called"
  /\ \/ /\ content \in Contents
        /\ chunkSize \in 1..MaxChunkSize
        /\ overlap \in 0..MaxChunkSize
     \/ /\ content = ScenarioContent
        /\ chunkSize = DefaultChunkSize
        /\ overlap = DefaultOverlap
  /\ start = 0
  /\ chunks = << >>
  /\ slices = << >>
  /\ chunkEmbeddings = << >>
  /\ docChunks = << >>
  /\ docEmbedding = "none"
  /\ stored = FALSE
  /\ awcError = ""

\* chunkText up to its loop: a text no longer than chunkSize is returned whole.
ChunkTextEnter ==
  /\ awcPc = "called"
  /\ IF Len(content) <= chunkSize
       THEN /\ chunks' = <<content>>
            /\ slices' = << <<0, Len(content)>> >>
            /\ awcPc' = "chunked"
       ELSE /\ awcPc' = "chunking"
            /\ UNCHANGED <<chunks, slices>>
  /\ start' = 0
  /\ UNCHANGED <<content, chunkSize, overlap, chunkEmbeddings, docChunks,
                 docEmbedding, stored, awcError>>
  /\ UNCHANGED <<schedVars, embVars, docVars, auxVars>>

\* Where the next window starts once a window ending at `end` was emitted.
NextStart(end) == end - overlap

\* One iteration of the while loop of chunkText, and the loop test after it.
ChunkTextIterate ==
  /\ awcPc = "chunking"
  /\ start < Len(content)
  /\ Len(chunks) < MaxChunks
  /\ LET end == Min(start + chunkSize, Len(content))
     IN /\ chunks' = Append(chunks, Slice(content, start, end))
        /\ slices' = Append(slices, <<start, end>>)
        /\ start' = NextStart(end)
        /\ awcPc' = IF NextStart(end) < Len(content) THEN "chunking"
                                                      ELSE "chunked"
  /\ UNCHANGED <<content, chunkSize, overlap, chunkEmbeddings, docChunks,
                 docEmbedding, stored, awcError>>
  /\ UNCHANGED <<schedVars, embVars, docVars, auxVars>>

\* The loop is still running when the chunks array cannot grow any more: the
\* call never returns a chunk sequence.
ChunkTextExhaust ==
  /\ awcPc = "chunking"
  /\ start < Len(content)
  /\ Len(chunks) >= MaxChunks
  /\ awcPc' = "exhausted"
  /\ UNCHANGED <<content, chunkSize, overlap, start, chunks, slices,
                 chunkEmbeddings, docChunks, docEmbedding, stored, awcError>>
  /\ UNCHANGED <<schedVars, embVars, docVars, auxVars>>

\* ------------------------------------------------------ EmbeddingService
\* sanitizeText: runs of white space become one space, characters outside
\* [\w\s.,!?-] are removed, the result is trimmed.
CollapseSpaces(text) ==
  LET pairs == [i \in 1..Len(text) |->
                  <<text[i], IF i > 1 THEN text[i - 1] ELSE "">>]
      kept  == SelectSeq(pairs, LAMBDA pr : ~(pr[1] = " " /\ pr[2] = " "))
  IN [i \in 1..Len(kept) |-> kept[i][1]]

StripSymbols(text) == SelectSeq(text, LAMBDA c : c # "#")

Trim(text) ==
  LET idx == {i \in 1..Len(text) : text[i] # " "}
  IN IF idx = {} THEN << >>
     ELSE SubSeq(text, CHOOSE i \in idx : \A j \in idx : i <= j,
                       CHOOSE i \in idx : \A j \in idx : i >= j)

SanitizeText(text) == Trim(StripSymbols(CollapseSpaces(text)))

NeverBlank(text) == FALSE

\* `!sanitizedText.trim()`
IsBlank(text) == Trim(SanitizeText(text)) = << >>

\* A vector is identified by the sanitized text it was generated for.
Vec(text) == [defined |-> TRUE, text |-> text]
NoVector  == [defined |-> FALSE, text |-> << >>]

\* generateEmbeddings(texts): the result when the provider answers, as
\* [error, vectors].
GenerateEmbeddings(texts, providerOk) ==
  IF Len(texts) = 0 THEN [error |-> "", vectors |-> << >>]
  ELSE IF Len(texts) = 1
    THEN IF IsBlank(texts[1])
           THEN [error |-> "EMPTY_TEXT", vectors |-> << >>]
           ELSE IF providerOk
             THEN [error |-> "", vectors |-> <<Vec(SanitizeText(texts[1]))>>]
             ELSE [error |-> "EMBEDDING_GENERATION_FAILED", vectors |-> << >>]
    ELSE LET sanitized == [i \in 1..Len(texts) |-> SanitizeText(texts[i])]
             valid     == SelectSeq(sanitized, LAMBDA t : Trim(t) # << >>)
         IN IF Len(valid) = 0
              THEN [error |-> "NO_VALID_TEXTS", vectors |-> << >>]
              ELSE IF providerOk
                THEN [error |-> "",
                      vectors |-> [i \in 1..Len(valid) |-> Vec(valid[i])]]
                ELSE [error |-> "BATCH_EMBEDDING_GENERATION_FAILED",
                      vectors |-> << >>]

\* ------------------------------------- DocumentService.addDocumentWithChunks
\* estimateTokenCount: Math.ceil(text.length / 4)
EstimateTokenCount(text) == (Len(text) + 3) \div 4

\* The chunk object built for textChunks[index] (index counts from 0) out of
\* n chunks.
ChunkRecord(index, n) ==
  [content |-> chunks[index + 1],
   embedding |-> IF index + 1 <= Len(chunkEmbeddings)
                   THEN chunkEmbeddings[index + 1] ELSE NoVector,
   chunk_index |-> index,
   start_position |-> index * (chunkSize - overlap),
   end_position |-> Min((index + 1) * chunkSize, Len(content)),
   overlap_with_previous |-> IF index > 0 THEN overlap ELSE 0,
   overlap_with_next |-> IF index < n - 1 THEN overlap ELSE 0,
   token_count |-> EstimateTokenCount(chunks[index + 1])]

\* Any failure inside the try block is rethrown as DOCUMENT_ADDITION_FAILED.
AddFailed ==
  /\ awcPc' = "failed"
  /\ awcError' = "DOCUMENT_ADDITION_FAILED"

\* await generateChunkEmbeddings(textChunks)
EmbedChunks ==
  /\ awcPc = "chunked"
  /\ \E providerOk \in BOOLEAN :
       LET r == GenerateEmbeddings(chunks, providerOk)
       IN IF r.error = ""
            THEN /\ chunkEmbeddings' = r.vectors
                 /\ awcPc' = "embedded"
                 /\ UNCHANGED awcError
            ELSE /\ AddFailed
                 /\ UNCHANGED chunkEmbeddings
  /\ UNCHANGED <<content, chunkSize, overlap, start, chunks, slices, docChunks,
                 docEmbedding, stored>>
  /\ UNCHANGED <<schedVars, embVars, docVars, auxVars>>

\* The chunk objects are built and assigned, then
\* await generateEmbedding(request.content).
EmbedDocument ==
  /\ awcPc = "embedded"
  /\ docChunks' = [i \in 1..Len(chunks) |-> ChunkRecord(i - 1, Len(chunks))]
  /\ \E providerOk \in BOOLEAN :
       IF ~IsBlank(content) /\ providerOk
         THEN /\ docEmbedding' = Vec(SanitizeText(content))
              /\ awcPc' = "documentEmbedded"
              /\ UNCHANGED awcError
         ELSE /\ AddFailed
              /\ UNCHANGED docEmbedding
  /\ UNCHANGED <<content, chunkSize, overlap, start, chunks, slices,
                 chunkEmbeddings, stored>>
  /\ UNCHANGED <<schedVars, embVars, docVars, auxVars>>

\* await weaviateService.addDocument(document), then status = COMPLETED.
StoreDocument ==
  /\ awcPc = "documentEmbedded"
  /\ \E storeOk \in BOOLEAN :
       IF storeOk
         THEN /\ stored' = TRUE
              /\ awcPc' = "completed"
              /\ UNCHANGED awcError
         ELSE /\ AddFailed
              /\ UNCHANGED stored
  /\ UNCHANGED <<content, chunkSize, overlap, start, chunks, slices,
                 chunkEmbeddings, docChunks, docEmbedding>>
  /\ UNCHANGED <<schedVars, embVars, docVars, auxVars>>

ChunkNext ==
  \/ ChunkTextEnter
  \/ ChunkTextIterate
  \/ ChunkTextExhaust
  \/ EmbedChunks
  \/ EmbedDocument
  \/ StoreDocument

\* ------------------------------------------------------- retryWithBackoff
\* The locals of one retryWithBackoff(fn, maxRetries, baseDelay) call.
RetryStart == [attempt |-> 0, calls |-> 0, delays |-> << >>]

\* `return await fn()` is entered.
RetryInvoke(r) == [r EXCEPT !.calls = @ + 1]

NeverLastAttempt(r, maxRetries) == FALSE

\* `if (attempt === maxRetries) throw lastError`
LastAttempt(r, maxRetries) == r.attempt = maxRetries

\* The delay baseDelay * 2^attempt is waited and the loop goes round.
RetryAgain(r, baseDelay) ==
  [r EXCEPT !.attempt = @ + 1,
            !.delays = Append(@, baseDelay * 2 ^ r.attempt)]

\* ------------------------------------ EmbeddingService, call by call
\* The baseDelay the service hands to retryWithBackoff.
BaseDelay == 1000

\* No call of the embedding service is in progress.
EmbIdle ==
  /\ embPc = "idle"
  /\ embMode = "single"
  /\ embTexts = << >>
  /\ embRetries = 0
  /\ embInputs = << >>
  /\ embRetry = RetryStart
  /\ embResult = << >>
  /\ embError = ""

BatchTexts == UNION {[1..n -> Alphabet] : n \in 0..MaxTextLen}
Batches    == UNION {[1..n -> BatchTexts] : n \in 0..MaxBatch}

\* generateEmbedding(text) or generateEmbeddings(texts) is called on a service
\* constructed with config.retries.
EmbInit ==
  /\ embPc = "called"
  /\ \/ /\ embMode = "single"
        /\ \E text \in Contents : embTexts = <<text>>
     \/ /\ embMode = "batch"
        /\ embTexts \in Batches
  /\ embRetries \in 0..MaxRetries
  /\ embInputs = << >>
  /\ embRetry = RetryStart
  /\ embResult = << >>
  /\ embError = ""

\* The call runs the body of generateEmbedding: directly, or from
\* generateEmbeddings for a one-element array.
SinglePath == embMode = "single" \/ Len(embTexts) = 1

AllTexts(texts) == [i \in 1..Len(texts) |-> SanitizeText(texts[i])]

\* texts.map(sanitizeText).filter((text) => text.trim())
ValidTexts(texts) ==
  SelectSeq([i \in 1..Len(texts) |-> SanitizeText(texts[i])],
            LAMBDA t : Trim(t) # << >>)

CatchSingleWrapsAll(e) == "EMBEDDING_GENERATION_FAILED"

\* The catch clause of generateEmbedding: an AppError is rethrown as it is,
\* anything else ("Error") becomes EMBEDDING_GENERATION_FAILED.
CatchSingle(e) == IF e = "Error" THEN "EMBEDDING_GENERATION_FAILED" ELSE e

CatchBatchWrapsAll(e) == "BATCH_EMBEDDING_GENERATION_FAILED"

\* The catch clause of generateEmbeddings.
CatchBatch(e) == IF e = "Error" THEN "BATCH_EMBEDDING_GENERATION_FAILED" ELSE e

\* `e` is thrown inside the try block(s) of the call.
EmbThrow(e) ==
  /\ embPc' = "failed"
  /\ embError' = IF embMode = "single" THEN CatchSingle(e)
                 ELSE IF Len(embTexts) = 1 THEN CatchBatch(CatchSingle(e))
                 ELSE CatchBatch(e)

\* The call up to retryWithBackoff: the empty array, the sanitizing and the
\* empty-input tests.
EmbValidate ==
  /\ embPc = "called"
  /\ IF embMode = "batch" /\ Len(embTexts) = 0
       THEN /\ embPc' = "returned"
            /\ UNCHANGED <<embInputs, embError>>
       ELSE IF SinglePath
         THEN IF IsBlank(embTexts[1])
                THEN /\ EmbThrow("EMPTY_TEXT")
                     /\ UNCHANGED embInputs
                ELSE /\ embInputs' = <<SanitizeText(embTexts[1])>>
                     /\ embPc' = "providerCall"
                     /\ UNCHANGED embError
         ELSE IF Len(ValidTexts(embTexts)) = 0
                THEN /\ EmbThrow("NO_VALID_TEXTS")
                     /\ UNCHANGED embInputs
                ELSE /\ embInputs' = ValidTexts(embTexts)
                     /\ embPc' = "providerCall"
                     /\ UNCHANGED embError
  /\ UNCHANGED <<embMode, embTexts, embRetries, embRetry, embResult>>
  /\ UNCHANGED <<schedVars, chunkVars, docVars, auxVars>>

\* One round of the retryWithBackoff loop: fn (embed / embedMany) is invoked
\* and answers with one vector per value, or throws; after a throw the loop
\* gives up on the last attempt and otherwise waits and goes round.
ProviderCall ==
  /\ embPc = "providerCall"
  /\ LET r == RetryInvoke(embRetry)
     IN \E ok \in BOOLEAN :
          IF ok
            THEN /\ embResult' = [i \in 1..Len(embInputs) |-> Vec(embInputs[i])]
                 /\ embPc' = "returned"
                 /\ embRetry' = r
                 /\ UNCHANGED embError
            ELSE IF LastAttempt(r, embRetries)
              THEN /\ EmbThrow("Error")
                   /\ embRetry' = r
                   /\ UNCHANGED embResult
              ELSE /\ embRetry' = RetryAgain(r, BaseDelay)
                   /\ UNCHANGED <<embPc, embResult, embError>>
  /\ UNCHANGED <<embMode, embTexts, embRetries, embInputs>>
  /\ UNCHANGED <<schedVars, chunkVars, docVars, auxVars>>

EmbNext ==
  \/ EmbValidate
  \/ ProviderCall

\* -------------------------------------------- DocumentService and the store
Ids         == 1..MaxOps
\* The contents handed to addDocument and updateDocument: the empty string,
\* white space only, and two that differ after sanitizing.
DocContents == {<< >>, <<" ">>, <<"a">>, <<"a", "a", "#">>}
Titles      == {"", "t1"}
Sources     == {"", "s"}

\* A content that was not passed (undefined).
NoContent == [given |-> FALSE, text |-> << >>]

UpdateContents ==
  {NoContent} \cup {[given |-> TRUE, text |-> t] : t \in DocContents}

\* No object under an id, no document, no arguments, no updateData.
NoObject ==
  [present |-> FALSE, title |-> "", content |-> << >>, metadata |-> "",
   created_at |-> 0, updated_at |-> 0, vector |-> NoVector]
NoDocument ==
  [id |-> 0, title |-> "", content |-> << >>, metadata |-> "",
   chunks |-> << >>, embedding |-> NoVector, created_at |-> 0,
   updated_at |-> 0, version |-> 0, status |-> "none"]
NoRequest ==
  [id |-> 0, title |-> "", content |-> NoContent, metadata |-> "",
   source |-> ""]
NoUpdate ==
  [updated_at |-> 0, title |-> "", content |-> NoContent,
   embedding |-> NoVector, metadata |-> ""]

\* The services after construction: an empty collection, no call made.
DocInit ==
  /\ docPc = "idle"
  /\ docOp = "none"
  /\ docVia = "direct"
  /\ docReq = NoRequest
  /\ existingDocument = NoDocument
  /\ updateData = NoUpdate
  /\ doc = NoDocument
  /\ docError = ""
  /\ store = [id \in Ids |-> NoObject]
  /\ clock = 0
  /\ storeCalls = 0
  /\ storeWrites = 0

\* The embedding service constructed with config.retries, no call made.
EmbConstructed ==
  /\ embPc = "idle"
  /\ embMode = "single"
  /\ embTexts = << >>
  /\ embRetries \in 0..MaxRetries
  /\ embInputs = << >>
  /\ embRetry = RetryStart
  /\ embResult = << >>
  /\ embError = ""

\* The call made does not get to the embedding service.
EmbClear ==
  /\ embPc' = "idle"
  /\ embMode' = "single"
  /\ embTexts' = << >>
  /\ embInputs' = << >>
  /\ embRetry' = RetryStart
  /\ embResult' = << >>
  /\ embError' = ""
  /\ UNCHANGED embRetries

\* await this.embeddingService.generateEmbedding(text)
EmbBegin(text) ==
  /\ embPc' = "called"
  /\ embMode' = "single"
  /\ embTexts' = <<text>>
  /\ embInputs' = << >>
  /\ embRetry' = RetryStart
  /\ embResult' = << >>
  /\ embError' = ""
  /\ UNCHANGED embRetries

\* The previous call has returned or thrown and a new one is made.
CallBegins(op, via, req) ==
  /\ docPc \in {"idle", "returned", "failed"}
  /\ clock < MaxOps
  /\ docOp' = op
  /\ docVia' = via
  /\ docReq' = req
  /\ clock' = clock + 1
  /\ storeWrites' = 0
  /\ existingDocument' = NoDocument
  /\ updateData' = NoUpdate
  /\ UNCHANGED store

\* addDocument up to `await generateEmbedding(request.content)`: the id, the
\* time and the document object.
AddDocumentEnter(request) ==
  /\ doc' = [id |-> clock + 1,
             title |-> request.title,
             content |-> request.content.text,
             metadata |-> request.metadata,
             chunks |-> << >>,
             embedding |-> NoVector,
             created_at |-> clock + 1,
             updated_at |-> clock + 1,
             version |-> 1,
             status |-> "processing"]
  /\ docPc' = "addEmbedding"
  /\ docError' = ""
  /\ storeCalls' = 0
  /\ EmbBegin(request.content.text)

\* handleAdd throws before it calls the document service.
HandleAddRejects(code) ==
  /\ docPc' = "failed"
  /\ docError' = code
  /\ doc' = NoDocument
  /\ storeCalls' = 0
  /\ EmbClear

\* The knowledge_base_add tool: MCPProtocol.handleAdd validates content and
\* source, builds the request and calls addDocument.
HandleAdd(title, text, source) ==
  /\ CallBegins("add", "tool",
                [id |-> 0, title |-> title,
                 content |-> [given |-> TRUE, text |-> text],
                 metadata |-> "", source |-> source])
  /\ IF text = << >> THEN HandleAddRejects("INVALID_CONTENT")
     ELSE IF source = "" THEN HandleAddRejects("INVALID_SOURCE")
     ELSE AddDocumentEnter(
            [title |-> IF title = "" THEN "Untitled Document" ELSE title,
             content |-> [given |-> TRUE, text |-> text],
             metadata |-> source])
  /\ UNCHANGED <<schedVars, chunkVars, auxVars>>

\* DocumentService.addDocument called with a request of its caller's making.
AddDocument(title, text, metadata) ==
  /\ CallBegins("add", "direct",
                [id |-> 0, title |-> title,
                 content |-> [given |-> TRUE, text |-> text],
                 metadata |-> metadata, source |-> metadata])
  /\ AddDocumentEnter([title |-> title,
                       content |-> [given |-> TRUE, text |-> text],
                       metadata |-> metadata])
  /\ UNCHANGED <<schedVars, chunkVars, auxVars>>

RethrowAddError(e) == e

\* The catch clause of addDocument: whatever was thrown becomes
\* DOCUMENT_ADDITION_FAILED.
WrapAddError(e) == "DOCUMENT_ADDITION_FAILED"

AddDocumentFailed(e) ==
  /\ docPc' = "failed"
  /\ docError' = WrapAddError(e)

\* generateEmbedding has returned or thrown: the vector is assigned and
\* weaviateService.addDocument(document) is called.
AddEmbedded ==
  /\ docPc = "addEmbedding"
  /\ embPc \in {"returned", "failed"}
  /\ IF embPc = "failed"
       THEN /\ AddDocumentFailed(embError)
            /\ UNCHANGED <<doc, storeCalls>>
       ELSE /\ doc' = [doc EXCEPT !.embedding = embResult[1]]
            /\ storeCalls' = storeCalls + 1
            /\ docPc' = "addStoring"
            /\ UNCHANGED docError
  /\ UNCHANGED <<docOp, docVia, docReq, existingDocument, updateData, store,
                 clock, storeWrites>>
  /\ UNCHANGED <<schedVars, chunkVars, embVars, auxVars>>

\* The object WeaviateService.addDocument creates: the properties, the id
\* and the vector `document.embedding || []`.
StoreObject(d) ==
  [present |-> TRUE, title |-> d.title, content |-> d.content,
   metadata |-> d.metadata, created_at |-> d.created_at,
   updated_at |-> d.updated_at, vector |-> d.embedding]

\* WeaviateService.addDocument creates the object or, its retries used up,
\* throws. The object is in the store from here on; the document of the
\* caller is still "processing".
AddStored ==
  /\ docPc = "addStoring"
  /\ \E storeOk \in BOOLEAN :
       IF storeOk
         THEN /\ store' = [store EXCEPT ![doc.id] = StoreObject(doc)]
              /\ storeWrites' = storeWrites + 1
              /\ docPc' = "addStored"
              /\ UNCHANGED docError
         ELSE /\ AddDocumentFailed("DOCUMENT_ADDITION_FAILED")
              /\ UNCHANGED <<store, storeWrites>>
  /\ UNCHANGED <<docOp, docVia, docReq, existingDocument, updateData, clock,
                 storeCalls, doc>>
  /\ UNCHANGED <<schedVars, chunkVars, embVars, auxVars>>

\* The await of weaviateService.addDocument has resumed: status = COMPLETED
\* and the document is returned.
AddCompleted ==
  /\ docPc = "addStored"
  /\ doc' = [doc EXCEPT !.status = "completed"]
  /\ docPc' = "returned"
  /\ UNCHANGED <<docOp, docVia, docReq, existingDocument, updateData, clock,
                 storeCalls, store, storeWrites, docError>>
  /\ UNCHANGED <<schedVars, chunkVars, embVars, auxVars>>

\* WeaviateService.getDocument for an id the store answers for: null
\* (NoDocument) or the document rebuilt from the object's properties.
GetDocument(id) ==
  IF ~store[id].present THEN NoDocument
  ELSE [id |-> id,
        title |-> store[id].title,
        content |-> store[id].content,
        metadata |-> store[id].metadata,
        chunks |-> << >>,
        embedding |-> NoVector,
        created_at |-> store[id].created_at,
        updated_at |-> store[id].updated_at,
        version |-> 1,
        status |-> "completed"]

\* `if (updates.content)`: a content was passed and is not the empty string.
SuppliesContent(req) == req.content.given /\ req.content.text # << >>

\* updateData before the embedding: updated_at, and title, content and
\* metadata where the update has a truthy one.
UpdateData(req, now) ==
  [updated_at |-> now,
   title |-> req.title,
   content |-> IF SuppliesContent(req) THEN req.content ELSE NoContent,
   embedding |-> NoVector,
   metadata |-> req.metadata]

MergeReversed(existing, upd) ==
  [existing EXCEPT !.embedding = upd.embedding]

\* { ...existingDocument, ...updateData }
Merge(existing, upd) ==
  [existing EXCEPT
     !.updated_at = upd.updated_at,
     !.title = IF upd.title # "" THEN upd.title ELSE @,
     !.content = IF upd.content.given THEN upd.content.text ELSE @,
     !.embedding = IF upd.embedding.defined THEN upd.embedding ELSE @,
     !.metadata = IF upd.metadata # "" THEN upd.metadata ELSE @]

\* WeaviateService.updateDocument: title, content, metadata and updated_at
\* are sent to the updater; no vector is.
StoreUpdate(object, upd) ==
  [object EXCEPT
     !.updated_at = upd.updated_at,
     !.title = IF upd.title # "" THEN upd.title ELSE @,
     !.content = IF upd.content.given THEN upd.content.text ELSE @,
     !.metadata = IF upd.metadata # "" THEN upd.metadata ELSE @]

CatchUpdateWrapsAll(e) == "DOCUMENT_UPDATE_FAILED"

\* The catch clause of updateDocument: an AppError is rethrown as it is,
\* anything else ("Error") becomes DOCUMENT_UPDATE_FAILED.
CatchUpdate(e) == IF e = "Error" THEN "DOCUMENT_UPDATE_FAILED" ELSE e

UpdateFailed(e) ==
  /\ docPc' = "failed"
  /\ docError' = CatchUpdate(e)

\* DocumentService.updateDocument(id, updates) up to
\* `await weaviateService.getDocument(id)`.
UpdateDocument(id, title, updContent, metadata) ==
  /\ CallBegins("update", "direct",
                [id |-> id, title |-> title, content |-> updContent,
                 metadata |-> metadata, source |-> ""])
  /\ docPc' = "updGetting"
  /\ doc' = NoDocument
  /\ docError' = ""
  /\ storeCalls' = 1
  /\ EmbClear
  /\ UNCHANGED <<schedVars, chunkVars, auxVars>>

\* getDocument has thrown, answered null or answered the document; updateData
\* is prepared and the embedding of a supplied content is asked for, or the
\* store update is called at once.
UpdateGot ==
  /\ docPc = "updGetting"
  /\ \E storeOk \in BOOLEAN :
       IF ~storeOk
         THEN /\ UpdateFailed("DOCUMENT_RETRIEVAL_FAILED")
              /\ UNCHANGED <<existingDocument, updateData, storeCalls, embVars>>
       ELSE IF GetDocument(docReq.id) = NoDocument
         THEN /\ UpdateFailed("DOCUMENT_NOT_FOUND")
              /\ UNCHANGED <<existingDocument, updateData, storeCalls, embVars>>
       ELSE /\ existingDocument' = GetDocument(docReq.id)
            /\ updateData' = UpdateData(docReq, clock)
            /\ UNCHANGED docError
            /\ IF SuppliesContent(docReq)
                 THEN /\ EmbBegin(docReq.content.text)
                      /\ docPc' = "updEmbedding"
                      /\ UNCHANGED storeCalls
                 ELSE /\ docPc' = "updStoring"
                      /\ storeCalls' = storeCalls + 1
                      /\ UNCHANGED embVars
  /\ UNCHANGED <<docOp, docVia, docReq, doc, store, clock, storeWrites>>
  /\ UNCHANGED <<schedVars, chunkVars, auxVars>>

\* generateEmbedding has returned or thrown: the vector goes into updateData
\* and weaviateService.updateDocument(id, updateData) is called.
UpdateEmbedded ==
  /\ docPc = "updEmbedding"
  /\ embPc \in {"returned", "failed"}
  /\ IF embPc = "failed"
       THEN /\ UpdateFailed(embError)
            /\ UNCHANGED <<updateData, storeCalls>>
       ELSE /\ updateData' = [updateData EXCEPT !.embedding = embResult[1]]
            /\ storeCalls' = storeCalls + 1
            /\ docPc' = "updStoring"
            /\ UNCHANGED docError
  /\ UNCHANGED <<docOp, docVia, docReq, existingDocument, doc, store, clock,
                 storeWrites>>
  /\ UNCHANGED <<schedVars, chunkVars, embVars, auxVars>>

\* WeaviateService.updateDocument has updated the object or thrown; the
\* merged document is returned.
UpdateStored ==
  /\ docPc = "updStoring"
  /\ \E storeOk \in BOOLEAN :
       IF storeOk
         THEN /\ store' = [store EXCEPT
                             ![docReq.id] = StoreUpdate(@, updateData)]
              /\ storeWrites' = storeWrites + 1
              /\ doc' = Merge(existingDocument, updateData)
              /\ docPc' = "returned"
              /\ UNCHANGED docError
         ELSE /\ UpdateFailed("DOCUMENT_UPDATE_FAILED")
              /\ UNCHANGED <<store, storeWrites, doc>>
  /\ UNCHANGED <<docOp, docVia, docReq, existingDocument, updateData, clock,
                 storeCalls>>
  /\ UNCHANGED <<schedVars, chunkVars, embVars, auxVars>>

DeleterRejectsAbsent(s, id, storeOk) ==
  [ok |-> storeOk /\ s[id].present,
   store |-> IF storeOk THEN [s EXCEPT ![id] = NoObject] ELSE s]

\* client.data.deleter()...withId(id).do(): the promise resolves, with no
\* object under the id afterwards, whether there was one or not; it rejects
\* when the store cannot be reached.
Deleter(s, id, storeOk) ==
  [ok |-> storeOk,
   store |-> IF storeOk THEN [s EXCEPT ![id] = NoObject] ELSE s]

\* DocumentService.deleteDocument(id) up to
\* `await weaviateService.deleteDocument(id)`.
DeleteDocument(id) ==
  /\ CallBegins("delete", "direct",
                [id |-> id, title |-> "", content |-> NoContent,
                 metadata |-> "", source |-> ""])
  /\ docPc' = "deleting"
  /\ doc' = NoDocument
  /\ docError' = ""
  /\ storeCalls' = 1
  /\ EmbClear
  /\ UNCHANGED <<schedVars, chunkVars, auxVars>>

\* The deleter has resolved or rejected; a rejection is wrapped into
\* DOCUMENT_DELETION_FAILED by WeaviateService and again by DocumentService.
DeleteDone ==
  /\ docPc = "deleting"
  /\ \E storeOk \in BOOLEAN :
       LET r == Deleter(store, docReq.id, storeOk)
       IN  IF r.ok
             THEN /\ store' = r.store
                  /\ storeWrites' = storeWrites + 1
                  /\ docPc' = "returned"
                  /\ UNCHANGED docError
             ELSE /\ docPc' = "failed"
                  /\ docError' = "DOCUMENT_DELETION_FAILED"
                  /\ UNCHANGED <<store, storeWrites>>
  /\ UNCHANGED <<docOp, docVia, docReq, existingDocument, updateData, doc,
                 clock, storeCalls>>
  /\ UNCHANGED <<schedVars, chunkVars, embVars, auxVars>>

DocNext ==
  \/ \E title \in Titles, text \in DocContents, source \in Sources :
       HandleAdd(title, text, source)
  \/ \E title \in Titles, text \in DocContents :
       AddDocument(title, text, "s")
  \/ AddEmbedded
  \/ AddStored
  \/ AddCompleted
  \/ \E id \in Ids, title \in {"", "t2"}, updContent \in UpdateContents,
        metadata \in {"", "m2"} :
       UpdateDocument(id, title, updContent, metadata)
  \/ UpdateGot
  \/ UpdateEmbedded
  \/ UpdateStored
  \/ \E id \in Ids : DeleteDocument(id)
  \/ DeleteDone
  \/ EmbValidate
  \/ ProviderCall

\* ----------------------------------------------------------- searchDocuments
\* The characters of the titles the documents are given.
Chars(title) ==
  CASE title = "t1" -> <<"t", "1">>
    [] title = "T2" -> <<"T", "2">>
    [] title = "t2" -> <<"t", "2">>
    [] title = "Untitled Document" ->
         <<"U", "n", "t", "i", "t", "l", "e", "d", " ",
           "D", "o", "c", "u", "m", "e", "n", "t">>
    [] OTHER -> << >>

\* The tags of the metadata the documents are given: "m2" stands for a
\* metadata object with tags ["technical"], the others have no tags.
Tags(metadata) == IF metadata = "m2" THEN {"technical"} ELSE {}

\* The requests the concurrent ingestions are made with.
SearchDocs ==
  {[title |-> "t1", text |-> <<"A", "#">>, metadata |-> "s"],
   [title |-> "T2", text |-> <<"a">>, metadata |-> "m2"]}

\* String.prototype.toLowerCase, on the characters in use.
ToLower(c) ==
  CASE c = "A" -> "a"
    [] c = "T" -> "t"
    [] c = "U" -> "u"
    [] c = "D" -> "d"
    [] OTHER -> c

LowerCase(text) == [i \in 1..Len(text) |-> ToLower(text[i])]

\* String.prototype.includes
Includes(text, part) ==
  \E i \in 0..(Len(text) - Len(part)) :
    SubSeq(text, i + 1, i + Len(part)) = part

\* titleMatch ? 0.9 : contentMatch ? 0.7 : 0.3, in hundredths.
Score(object, query) ==
  LET queryLower == LowerCase(query)
      titleMatch == Includes(LowerCase(Chars(object.title)), queryLower)
      contentMatch == Includes(LowerCase(object.content), queryLower)
  IN  IF titleMatch THEN 90 ELSE IF contentMatch THEN 70 ELSE 30

PassesAlways(score, threshold) == TRUE

\* if (score >= query.similarity_threshold)
PassesThreshold(score, threshold) == score >= threshold

RECURSIVE Ascending(_)
Ascending(S) ==
  IF S = {} THEN << >>
  ELSE LET m == CHOOSE x \in S : \A y \in S : x <= y
       IN  <<m>> \o Ascending(S \ {m})

\* graphql.get().withClassName("Documents").withLimit(limit)
\* .withOffset(offset): the objects of the class (the one the configured
\* collection name "documents" is stored under), in the order of their ids,
\* `limit` of them after the first `offset`. No where-filter is set.
Listed(s, limit, offset) ==
  LET all == Ascending({id \in Ids : s[id].present})
  IN  IF offset >= Len(all) THEN << >>
      ELSE SubSeq(all, offset + 1,
                  IF offset + limit < Len(all) THEN offset + limit
                  ELSE Len(all))

\* The document WeaviateService.searchDocuments builds from a listed item.
SearchDocument(s, id) ==
  [id |-> id,
   title |-> s[id].title,
   content |-> s[id].content,
   metadata |-> s[id].metadata,
   chunks |-> << >>,
   created_at |-> s[id].created_at,
   updated_at |-> s[id].updated_at,
   version |-> 1,
   status |-> "completed"]

\* The loop of WeaviateService.searchDocuments over the listed items.
SearchResults(s, q) ==
  LET items == Listed(s, q.limit, q.offset)
      scored == [i \in 1..Len(items) |->
                   [document |-> SearchDocument(s, items[i]),
                    score |-> Score(s[items[i]], q.query)]]
  IN  SelectSeq(scored,
                LAMBDA r : PassesThreshold(r.score, q.similarity_threshold))

\* The queries searchDocuments is called with; similarity_threshold in
\* hundredths, tags the filters.tags of the query.
SearchQueries ==
  {[query |-> q, similarity_threshold |-> t, limit |-> p[1],
    offset |-> p[2], tags |-> g] :
     q \in {<<"T">>, <<"A">>, <<"1">>, <<" ">>}, t \in {70, 95},
     p \in {<<10, 0>>, <<1, 1>>}, g \in {{}, {"technical"}}}

\* The catch clauses of both searchDocuments methods.
CatchSearch(e) == "DOCUMENT_SEARCH_FAILED"

\* DocumentService.searchDocuments(query), whole: generateEmbedding of the
\* query text (EMPTY_TEXT for a blank one, or the provider failing, or a
\* vector), the store listing (or its retries used up), the scoring. The
\* store is read once, at the time the listing is served.
SearchDocuments(q) ==
  /\ srchCalls < MaxSearches
  /\ srchCalls' = srchCalls + 1
  /\ srchQuery' = q
  /\ \E embOk \in BOOLEAN, storeOk \in BOOLEAN :
       IF IsBlank(q.query)
         THEN /\ srchPc' = "failed"
              /\ srchError' = CatchSearch("EMPTY_TEXT")
              /\ srchResults' = << >>
       ELSE IF ~embOk
         THEN /\ srchPc' = "failed"
              /\ srchError' = CatchSearch("EMBEDDING_GENERATION_FAILED")
              /\ srchResults' = << >>
       ELSE IF ~storeOk
         THEN /\ srchPc' = "failed"
              /\ srchError' = CatchSearch(CatchSearch("Error"))
              /\ srchResults' = << >>
       ELSE /\ srchPc' = "returned"
            /\ srchError' = ""
            /\ srchResults' = SearchResults(store, q)
  /\ UNCHANGED <<schedVars, chunkVars, embVars, docVars, cosVars, walkVars>>

\* Ingestions through addDocument, with searches made at any time.
SearchNext ==
  \/ \E d \in SearchDocs : AddDocument(d.title, d.text, d.metadata)
  \/ AddEmbedded
  \/ AddStored
  \/ AddCompleted
  \/ EmbValidate
  \/ ProviderCall
  \/ \E q \in SearchQueries : SearchDocuments(q)

\* ------------------------------------------------- calculateCosineSimilarity
Vectors == UNION {[1..n -> -MaxCoord..MaxCoord] : n \in 0..MaxDim}

\* The sums the loop accumulates: sum of a[i] * b[i] for i up to n.
RECURSIVE SumProducts(_, _, _)
SumProducts(a, b, n) ==
  IF n = 0 THEN 0 ELSE SumProducts(a, b, n - 1) + a[n] * b[n]

\* A JavaScript number: NaN, an infinity, or num / sqrt(den) with den > 0.
NoNumber == [kind |-> "none", num |-> 0, den |-> 1]
NaN == [kind |-> "NaN", num |-> 0, den |-> 1]
Number(num, den) == [kind |-> "number", num |-> num, den |-> den]
Infinity(sign) == [kind |-> "Infinity", num |-> sign, den |-> 1]

\* dotProduct / (Math.sqrt(normA) * Math.sqrt(normB)): 0 / 0 is NaN and
\* x / 0 an infinity.
Similarity(dotProduct, normA, normB) ==
  IF normA * normB = 0
    THEN IF dotProduct = 0 THEN NaN
         ELSE Infinity(IF dotProduct > 0 THEN 1 ELSE -1)
    ELSE Number(dotProduct, normA * normB)

\* Math.min(1, x): NaN for NaN.
MinOne(x) ==
  CASE x.kind = "NaN" -> NaN
    [] x.kind = "Infinity" -> IF x.num > 0 THEN Number(1, 1) ELSE x
    [] OTHER -> IF x.num > 0 /\ x.num * x.num > x.den THEN Number(1, 1)
                ELSE x

\* Math.max(0, x): NaN for NaN.
MaxZero(x) ==
  CASE x.kind = "NaN" -> NaN
    [] x.kind = "Infinity" -> IF x.num < 0 THEN Number(0, 1) ELSE x
    [] OTHER -> IF x.num < 0 THEN Number(0, 1) ELSE x

CosInit ==
  /\ cosPc = "called"
  /\ vectorA \in Vectors
  /\ vectorB \in Vectors
  /\ cosResult = NoNumber

\* calculateCosineSimilarity(vectorA, vectorB)
CalculateCosineSimilarity ==
  /\ cosPc = "called"
  /\ IF Len(vectorA) # Len(vectorB)
       THEN /\ cosPc' = "threw"
            /\ UNCHANGED cosResult
       ELSE LET dotProduct == SumProducts(vectorA, vectorB, Len(vectorA))
                normA == SumProducts(vectorA, vectorA, Len(vectorA))
                normB == SumProducts(vectorB, vectorB, Len(vectorB))
            IN  /\ cosResult' =
                     MaxZero(MinOne(Similarity(dotProduct, normA, normB)))
                /\ cosPc' = "returned"
  /\ UNCHANGED <<vectorA, vectorB>>
  /\ UNCHANGED <<schedVars, chunkVars, embVars, docVars, srchVars, walkVars>>

CosNext == CalculateCosineSimilarity

\* -------------------------------------- indexDirectory, getFilesRecursively
\* The names a directory listing is made of.
EntryNames ==
  {"a.ts", "c.bin", "lib", "dist", "node_modules", ".git", "broken", "sock"}

\* What stat(fullPath) answers for an entry: a regular file, a directory,
\* something that is neither, or a rejection (an entry that cannot be
\* stat-ed, such as a dangling link).
Kind(item) ==
  CASE item \in {"a.ts", "c.bin"} -> "file"
    [] item \in {"lib", "dist", "node_modules", ".git"} -> "directory"
    [] item = "broken" -> "error"
    [] OTHER -> "other"

\* path.extname(item)
Extname(item) ==
  CASE item = "a.ts" -> ".ts"
    [] item = "c.bin" -> ".bin"
    [] OTHER -> ""

\* codeExtensions, the allowlist of the sweep over src/.
Extensions == {".ts", ".js", ".tsx", ".jsx", ".json", ".yaml", ".yml"}

\* item === "node_modules" || item === ".git"
SkippedNames == {"node_modules", ".git"}

\* The names generateProjectStructure passes over.
StructureSkippedNames == {"node_modules", ".git", "dist"}

\* What readdir may answer when at most n entries remain to be shown: the
\* names of a directory, each once, in the order of the listing.
Listings(n) ==
  {l \in UNION {[1..k -> EntryNames] : k \in 0..n} :
     \A i \in 1..Len(l), j \in 1..Len(l) : i # j => l[i] # l[j]}

\* One invocation of getFilesRecursively(dirPath, extensions), about to call
\* readdir.
Frame(path) ==
  [path |-> path, pc |-> "readdir", items |-> << >>, idx |-> 1,
   files |-> << >>]

Top == walkStack[Len(walkStack)]

SetTop(frame) == [walkStack EXCEPT ![Len(walkStack)] = frame]

WalkInit ==
  /\ walkPc = "idle"
  /\ walkStack = << >>
  /\ walkBudget = MaxEntries
  /\ walkExpected = {}
  /\ walkEntered = {}
  /\ walkFiles = << >>
  /\ walkIndexed = << >>

\* indexDirectory(dirPath, extensions, context) up to
\* `await this.getFilesRecursively(dirPath, extensions)`.
IndexDirectory ==
  /\ walkPc = "idle"
  /\ walkPc' = "walking"
  /\ walkStack' = <<Frame(<< >>)>>
  /\ walkEntered' = {<< >>}
  /\ UNCHANGED <<walkBudget, walkExpected, walkFiles, walkIndexed>>
  /\ UNCHANGED <<schedVars, chunkVars, embVars, docVars, srchVars, cosVars>>

\* `await readdir(dirPath)` answers with the listing or rejects; a rejection
\* is caught by the catch clause around the loop.
Readdir ==
  /\ walkPc = "walking"
  /\ Top.pc = "readdir"
  /\ \/ /\ walkStack' = SetTop([Top EXCEPT !.pc = "done"])
        /\ UNCHANGED <<walkBudget, walkExpected>>
     \/ \E items \in Listings(walkBudget) :
          /\ walkStack' = SetTop([Top EXCEPT !.pc = "loop", !.items = items])
          /\ walkBudget' = walkBudget - Len(items)
          /\ walkExpected' =
               walkExpected \cup
                 {Append(Top.path, items[i]) : i \in
                    {j \in 1..Len(items) :
                       /\ Kind(items[j]) = "file"
                       /\ Extname(items[j]) \in Extensions}}
  /\ UNCHANGED <<walkPc, walkEntered, walkFiles, walkIndexed>>
  /\ UNCHANGED <<schedVars, chunkVars, embVars, docVars, srchVars, cosVars>>

\* One round of `for (const item of items)`: stat, then the recursive call,
\* the push or nothing. A rejected stat leaves the loop for the catch clause.
StatItem ==
  /\ walkPc = "walking"
  /\ Top.pc = "loop"
  /\ Top.idx <= Len(Top.items)
  /\ LET item == Top.items[Top.idx]
         fullPath == Append(Top.path, item)
     IN  IF Kind(item) = "error"
           THEN /\ walkStack' = SetTop([Top EXCEPT !.pc = "done"])
                /\ UNCHANGED walkEntered
         ELSE IF Kind(item) = "directory"
           THEN IF item \in SkippedNames
                  THEN /\ walkStack' = SetTop([Top EXCEPT !.idx = @ + 1])
                       /\ UNCHANGED walkEntered
                  ELSE /\ walkStack' = Append(walkStack, Frame(fullPath))
                       /\ walkEntered' = walkEntered \cup {fullPath}
         ELSE IF Kind(item) = "file"
           THEN /\ walkStack' =
                     SetTop([Top EXCEPT
                               !.idx = @ + 1,
                               !.files = IF Extname(item) \in Extensions
                                           THEN Append(@, fullPath) ELSE @])
                /\ UNCHANGED walkEntered
         ELSE /\ walkStack' = SetTop([Top EXCEPT !.idx = @ + 1])
              /\ UNCHANGED walkEntered
  /\ UNCHANGED <<walkPc, walkBudget, walkExpected, walkFiles, walkIndexed>>
  /\ UNCHANGED <<schedVars, chunkVars, embVars, docVars, srchVars, cosVars>>

\* `return files`, after the loop or after the catch clause: the caller
\* pushes the files and goes on with its next item, or indexDirectory has its
\* list.
WalkReturn ==
  /\ walkPc = "walking"
  /\ \/ Top.pc = "done"
     \/ Top.pc = "loop" /\ Top.idx > Len(Top.items)
  /\ IF Len(walkStack) = 1
       THEN /\ walkFiles' = Top.files
            /\ walkStack' = << >>
            /\ walkPc' = IF Top.files = << >> THEN "done" ELSE "indexing"
       ELSE LET caller == walkStack[Len(walkStack) - 1]
            IN  /\ walkStack' =
                     [SubSeq(walkStack, 1, Len(walkStack) - 1) EXCEPT
                        ![Len(walkStack) - 1] =
                           [caller EXCEPT !.files = @ \o Top.files,
                                          !.idx = @ + 1]]
                /\ UNCHANGED <<walkPc, walkFiles>>
  /\ UNCHANGED <<walkBudget, walkExpected, walkEntered, walkIndexed>>
  /\ UNCHANGED <<schedVars, chunkVars, embVars, docVars, srchVars, cosVars>>

\* One round of `for (const file of files)` in indexDirectory: indexFile
\* resolves or throws, and a throw is caught and logged.
IndexFile ==
  /\ walkPc = "indexing"
  /\ LET i == Len(walkIndexed) + 1
     IN  /\ \E ok \in BOOLEAN :
              walkIndexed' =
                Append(walkIndexed, [file |-> walkFiles[i], ok |-> ok])
         /\ walkPc' = IF i = Len(walkFiles) THEN "done" ELSE "indexing"
  /\ UNCHANGED <<walkStack, walkBudget, walkExpected, walkEntered, walkFiles>>
  /\ UNCHANGED <<schedVars, chunkVars, embVars, docVars, srchVars, cosVars>>

WalkNext ==
  \/ IndexDirectory
  \/ Readdir
  \/ StatItem
  \/ WalkReturn
  \/ IndexFile

\* ------------------------------------------------ nothing else in progress
SrchIdle ==
  /\ srchPc = "idle"
  /\ srchCalls = 0
  /\ srchQuery = [query |-> << >>, similarity_threshold |-> 0,
                  limit |-> 0, offset |-> 0, tags |-> {}]
  /\ srchResults = << >>
  /\ srchError = ""

CosIdle ==
  /\ cosPc = "idle"
  /\ vectorA = << >>
  /\ vectorB = << >>
  /\ cosResult = NoNumber

WalkIdle ==
  /\ walkPc = "idle"
  /\ walkStack = << >>
  /\ walkBudget = 0
  /\ walkExpected = {}
  /\ walkEntered = {}
  /\ walkFiles = << >>
  /\ walkIndexed = << >>

AuxIdle == SrchIdle /\ CosIdle /\ WalkIdle

\* --------------------------------------------------------- specifications
\* The scheduler, with no ingestion call of its own in progress.
Init == SchedInit /\ ChunkIdle /\ EmbIdle /\ DocInit /\ AuxIdle

Spec == Init /\ [][SchedNext]_vars

\* Every awaited sweep call returns or throws, and a resumed
\* startAutoIndexing() runs on.
FairSpec ==
  /\ Spec
  /\ \A p \in Slots : WF_vars(PassStep(p))
  /\ \A s \in Starts : WF_vars(SetTimer(s))

\* One addDocumentWithChunks call on a freshly constructed server.
ChunkSpecInit == SchedInit /\ ChunkInit /\ EmbIdle /\ DocInit /\ AuxIdle

ChunkSpec == ChunkSpecInit /\ [][ChunkNext]_vars

\* One generateEmbedding / generateEmbeddings call on a freshly constructed
\* server.
EmbSpecInit == SchedInit /\ ChunkIdle /\ EmbInit /\ DocInit /\ AuxIdle

EmbSpec == EmbSpecInit /\ [][EmbNext]_vars

\* addDocument and updateDocument calls, one after the other, on a freshly
\* constructed server.
DocSpecInit == SchedInit /\ ChunkIdle /\ EmbConstructed /\ DocInit /\ AuxIdle

DocSpec == DocSpecInit /\ [][DocNext]_vars

\* calculateCosineSimilarity on every pair of vectors.
CosSpecInit ==
  SchedInit /\ ChunkIdle /\ EmbIdle /\ DocInit /\ SrchIdle /\ CosInit /\ WalkIdle

CosSpec == CosSpecInit /\ [][CosNext]_vars

\* indexDirectory over every tree of at most MaxEntries entries.
WalkSpecInit ==
  SchedInit /\ ChunkIdle /\ EmbIdle /\ DocInit /\ SrchIdle /\ CosIdle /\ WalkInit

WalkSpec == WalkSpecInit /\ [][WalkNext]_vars

\* searchDocuments beside the ingestions of addDocument.
SearchSpecInit == DocSpecInit /\ embRetries = 0

SearchSpec == SearchSpecInit /\ [][SearchNext]_vars

\* ------------------------------------------------- scheduler properties
IsPrefix(a, b) == Len(a) <= Len(b) /\ a = SubSeq(b, 1, Len(a))

\* Some invocation of performIndexing gets past the guard in this step.
PassBegins == \E p \in Slots : pass[p].pc = "free" /\ pass'[p].pc # "free"

\* C1: single-flight.  At most one pass is executing its sweeps at any time,
\* and a pass leaves idle only in a step taken while isIndexing is false.
SingleFlight ==
  /\ [](Cardinality(Running) <= 1)
  /\ [][PassBegins => ~isIndexing]_vars

\* C1 witness: a trigger met the pass started by a timer tick and was skipped.
SingleFlightWitness ==
  /\ out = "skipping"
  /\ \E p \in Slots : pass[p].origin = "timer" /\ pass[p].pc # "free"

\* C2: a manual trigger or a timer tick arriving while isIndexing is true
\* changes neither the flag, the timer, the running pass nor any start call,
\* submits no document, and is not queued: a pass only ever begins in the
\* step of a call that found the flag false, never on the end of another pass.
SkippedTriggerIsNoOp ==
  /\ [][(isIndexing /\ (TriggerIndexing \/ \E t \in Starts : TimerTick(t)))
          => /\ UNCHANGED <<isIndexing, indexingInterval, liveTimers, pass,
                            startPc, stopCalled>>
             /\ out' = "skipping"]_vars
  /\ [][PassBegins => /\ ~isIndexing
                      /\ \/ TriggerIndexing
                         \/ \E t \in Starts : TimerTick(t)
                         \/ \E s \in Starts : StartAutoIndexing(s)]_vars

\* C2 witness: a trigger was skipped while a manual pass runs and a timer is set.
SkippedTriggerWitness ==
  /\ out = "skipping"
  /\ isIndexing
  /\ indexingInterval # 0
  /\ \E p \in Slots : pass[p].origin = "manual" /\ pass[p].pc = "histLog"

\* C3: the flag is set while any pass is in flight, and every pass that has
\* started clears it again, after which a trigger finds a free invocation.
FlagReleased ==
  /\ [](Running # {} => isIndexing)
  /\ [](~isIndexing => \E p \in Slots : pass[p].pc = "free")
  /\ (isIndexing ~> ~isIndexing)

\* C3 witness: a pass has gone through its finally clause and the flag is clear.
FlagReleasedWitness ==
  /\ out = "completed"
  /\ ~isIndexing
  /\ Running = {}

\* C4: the sweeps of a pass are started in the order documentation, code,
\* history, structure, and a pass that ends has started all four, whatever
\* failed inside them.
SweepsInOrder ==
  \A p \in Slots :
    /\ pass[p].pc # "free" => IsPrefix(pass[p].started, Sweeps)
    /\ pass[p].pc \notin {"free", "finally"} =>
         pass[p].started[Len(pass[p].started)] = SweepOf(pass[p].pc)
    /\ pass[p].pc = "finally" => pass[p].started = Sweeps

\* C4 witness: a pass in which something failed ended with four sweeps started.
SweepsInOrderWitness ==
  \E p \in Slots :
    pass[p].pc = "finally" /\ pass[p].failed /\ pass[p].started = Sweeps

\* C5: once stopAutoIndexing() has been called after a single
\* startAutoIndexing(), no pass initiated by the timer begins.
NoTimerPassAfterStop ==
  [][(stopCalled /\ Cardinality(StartsCalled) = 1)
       => ~(\E p \in Slots : /\ pass[p].pc = "free"
                             /\ pass'[p].pc # "free"
                             /\ pass'[p].origin = "timer")]_vars

\* C6: stopAutoIndexing() leaves a pass in flight alone: the step changes
\* neither the flag nor the pass, and that pass goes on to start its remaining
\* sweeps, reach its end and clear the flag.
StopDoesNotInterrupt ==
  /\ [][out' \in {"stopped", "stopNoTimer"} => UNCHANGED <<isIndexing, pass>>]_vars
  /\ \A p \in Slots :
       (out \in {"stopped", "stopNoTimer"} /\ pass[p].pc # "free")
          ~> (pass[p].pc = "finally" /\ pass[p].started = Sweeps)
  /\ (out \in {"stopped", "stopNoTimer"} /\ isIndexing) ~> ~isIndexing

\* C6 witness: stop has just cleared the timer while a pass is in its code sweep.
StopDoesNotInterruptWitness ==
  /\ out = "stopped"
  /\ isIndexing
  /\ \E p \in Slots : pass[p].pc = "codeCfg" /\ pass[p].started = <<"documentation", "code">>

\* --------------------------------------------------- chunking properties
\* chunkSize > 0 and 0 <= overlap < chunkSize
ValidPair == chunkSize > 0 /\ overlap >= 0 /\ overlap < chunkSize

\* chunkText has returned its chunk sequence to addDocumentWithChunks.
ChunkTextReturned == awcPc \notin {"idle", "called", "chunking", "exhausted"}

\* C7: for every content and every valid pair, chunkText terminates.  The
\* loop is deterministic in `start`, so it terminates exactly when no
\* iteration that stays in the loop leaves `start` where it was: the window
\* keeps moving until it would start at or past len(content).
ChunkTextTerminates ==
  [][(ValidPair /\ awcPc = "chunking" /\ awcPc' = "chunking")
       => start' > start]_vars

IsScenario ==
  /\ content = ScenarioContent
  /\ chunkSize = DefaultChunkSize
  /\ overlap = DefaultOverlap

\* C8: the 2,500-character document with chunkSize 1000 and overlap 200
\* gives exactly 3 chunks, starting at 0, 800 and 1600, the last ending at 2500.
ScenarioYieldsThreeChunks ==
  IsScenario =>
    /\ Len(chunks) <= 3
    /\ awcPc # "exhausted"
    /\ ChunkTextReturned =>
         /\ Len(chunks) = 3
         /\ [i \in 1..3 |-> slices[i][1]] = <<0, 800, 1600>>
         /\ slices[3][2] = Len(ScenarioContent)

\* The first chunk whole, then every later chunk without its first `overlap`
\* characters, concatenated in order.
RECURSIVE Reconstruct(_)
Reconstruct(cs) ==
  IF Len(cs) = 0 THEN << >>
  ELSE IF Len(cs) = 1 THEN cs[1]
  ELSE Reconstruct(SubSeq(cs, 1, Len(cs) - 1))
         \o SubSeq(cs[Len(cs)], overlap + 1, Len(cs[Len(cs)]))

\* C9: for every content and every valid pair the chunk sequence chunkText
\* yields reconstructs the content, and a content no longer than chunkSize
\* comes back as the single chunk equal to it.
ChunksReconstructContent ==
  (ValidPair /\ awcPc \notin {"idle", "called", "chunking"}) =>
    /\ awcPc # "exhausted"
    /\ Reconstruct(chunks) = content
    /\ Len(content) <= chunkSize => chunks = <<content>>

\* C10: with a nonzero overlap, the positions addDocumentWithChunks records
\* for chunk i are the window chunkText sliced chunk i from, consecutive
\* chunks satisfy end_position(i) - overlap_with_next(i) = start_position(i+1),
\* and chunk_index counts from 0 without gaps.
ChunkPositionsConsistent ==
  (ValidPair /\ overlap > 0) =>
    \A i \in 1..Len(chunks) :
      LET m == ChunkRecord(i - 1, Len(chunks))
      IN /\ m.chunk_index = i - 1
         /\ m.start_position = slices[i][1]
         /\ m.end_position = slices[i][2]
         /\ i < Len(chunks) =>
              m.end_position - m.overlap_with_next
                = ChunkRecord(i, Len(chunks)).start_position

\* C11: a call with overlap >= chunkSize is rejected before anything else
\* happens: it never gets past its entry other than by failing, no chunk is
\* emitted, no embedding is obtained and nothing is stored.
InvalidOverlapRejected ==
  overlap >= chunkSize =>
    /\ awcPc \in {"called", "failed"}
    /\ chunks = << >>
    /\ chunkEmbeddings = << >>
    /\ ~stored

\* C17: addDocumentWithChunks is all-or-nothing.  A failed call carries
\* DOCUMENT_ADDITION_FAILED and has written nothing, and the store write is
\* made only once the document embedding and the embedding of every chunk
\* have been obtained.
ChunkedAddAllOrNothing ==
  /\ awcPc = "failed" => (awcError = "DOCUMENT_ADDITION_FAILED" /\ ~stored)
  /\ stored =>
       /\ awcPc = "completed"
       /\ docEmbedding.defined
       /\ Len(docChunks) = Len(chunks)
       /\ \A i \in 1..Len(docChunks) : docChunks[i].embedding.defined

\* --------------------------------------------------- embedding properties
\* Every invocation of fn so far has thrown.
EveryCallFailed == embPc \in {"providerCall", "failed"}

\* C12 as stated: an operation failing on every call is invoked at most
\* maxRetries times in total.
RetryAtMostMaxRetriesCalls ==
  EveryCallFailed => embRetry.calls <= embRetries

\* C12: an operation failing on every call is invoked at most maxRetries + 1
\* times in total (the first attempt and maxRetries retries); the failure is
\* raised to the caller at the end of invocation maxRetries + 1 and not
\* before, and a delay is waited only between two invocations.
RetryBounded ==
  /\ embRetry.calls <= embRetries + 1
  /\ Len(embRetry.delays) = embRetry.attempt
  /\ embRetry.attempt <= embRetries
  /\ embPc = "providerCall" => embRetry.calls = embRetry.attempt
  /\ (embPc = "failed" /\ embRetry.calls > 0) =>
       /\ embRetry.calls = embRetries + 1
       /\ embError \in {"EMBEDDING_GENERATION_FAILED",
                        "BATCH_EMBEDDING_GENERATION_FAILED"}

\* C12 witness: with two retries configured, the third invocation has failed
\* and the failure was raised.
RetryBoundedWitness ==
  /\ embPc = "failed"
  /\ embRetries = 2
  /\ embRetry.calls = 3
  /\ Len(embRetry.delays) = 2

\* C13: generateEmbedding on a text that is blank after sanitizing fails with
\* EMPTY_TEXT: it returns no vector, fn is never invoked and nothing is retried.
BlankTextRejected ==
  (embMode = "single" /\ embPc # "idle" /\ IsBlank(embTexts[1])) =>
    /\ embPc \in {"called", "failed"}
    /\ embPc = "failed" => embError = "EMPTY_TEXT"
    /\ embResult = << >>
    /\ embRetry = RetryStart

\* C13 witness: a text of symbols and white space only was rejected.
BlankTextRejectedWitness ==
  /\ embMode = "single"
  /\ embPc = "failed"
  /\ embTexts = << <<" ", "#", " ">> >>
  /\ embError = "EMPTY_TEXT"

\* The inputs that are not blank after sanitizing, sanitized, in input order.
RECURSIVE NonBlank(_)
NonBlank(texts) ==
  IF Len(texts) = 0 THEN << >>
  ELSE IF IsBlank(texts[1]) THEN NonBlank(Tail(texts))
  ELSE <<SanitizeText(texts[1])>> \o NonBlank(Tail(texts))

\* C14: a batch of two or more texts, one at least not blank, returns one
\* vector per non-blank input, in input order, and fails only when the
\* provider has failed on every attempt; the empty array returns the empty
\* array without error and without a provider call.
BatchDropsBlankTexts ==
  /\ (embMode = "batch" /\ Len(embTexts) >= 2 /\ NonBlank(embTexts) # << >>) =>
       /\ embPc = "returned" =>
            embResult = [i \in 1..Len(NonBlank(embTexts)) |->
                           Vec(NonBlank(embTexts)[i])]
       /\ embPc = "failed" =>
            /\ embError = "BATCH_EMBEDDING_GENERATION_FAILED"
            /\ embRetry.calls = embRetries + 1
  /\ (embMode = "batch" /\ Len(embTexts) = 0) =>
       /\ embPc \in {"called", "returned"}
       /\ embResult = << >>
       /\ embError = ""
       /\ embRetry = RetryStart

\* C14 witness: ["a", "", "a"] has returned exactly two vectors.
BatchDropsBlankTextsWitness ==
  /\ embMode = "batch"
  /\ embTexts = << <<"a">>, << >>, <<"a">> >>
  /\ embPc = "returned"
  /\ Len(embResult) = 2

AllBlank(texts) == \A i \in 1..Len(texts) : IsBlank(texts[i])

\* C15 as stated: every non-empty array of blank texts, the one-element
\* array included, is rejected with NO_VALID_TEXTS.
AllBlankIsNoValidTexts ==
  (embMode = "batch" /\ Len(embTexts) >= 1 /\ AllBlank(embTexts)) =>
    /\ embPc \in {"called", "failed"}
    /\ embPc = "failed" => embError = "NO_VALID_TEXTS"

\* C15: an array of two or more texts, all blank, is rejected with
\* NO_VALID_TEXTS before any provider call; a one-element array takes the
\* single-text path and its blank text is rejected with EMPTY_TEXT.
AllBlankBatchRejected ==
  (embMode = "batch" /\ Len(embTexts) >= 1 /\ AllBlank(embTexts)) =>
    /\ embPc \in {"called", "failed"}
    /\ embPc = "failed" =>
         embError = IF Len(embTexts) = 1 THEN "EMPTY_TEXT" ELSE "NO_VALID_TEXTS"
    /\ embResult = << >>
    /\ embRetry = RetryStart

\* C15 witness: ["", " ", "#"] was rejected with NO_VALID_TEXTS.
AllBlankBatchRejectedWitness ==
  /\ embMode = "batch"
  /\ embTexts = << << >>, <<" ">>, <<"#">> >>
  /\ embPc = "failed"
  /\ embError = "NO_VALID_TEXTS"

\* ------------------------------------------- document service properties
\* The call is an addDocument that got into the DocumentService.
InAddDocument == docOp = "add" /\ doc # NoDocument

\* C16: an addDocument whose embedding generation or store write fails
\* throws DOCUMENT_ADDITION_FAILED and leaves nothing in the store under the
\* id of its document; one that returns gives a completed document of version
\* 1 with the embedding of its content, created in the store exactly once.
AddDocumentAllOrNothing ==
  InAddDocument =>
    /\ docPc \notin {"addStored", "returned"} =>
         /\ ~store[doc.id].present
         /\ storeWrites = 0
    /\ docPc = "failed" => docError = "DOCUMENT_ADDITION_FAILED"
    /\ docPc = "returned" =>
         /\ doc.status = "completed"
         /\ doc.version = 1
         /\ doc.embedding = Vec(SanitizeText(doc.content))
         /\ storeWrites = 1
         /\ store[doc.id] = StoreObject(doc)

\* C16 witness: the embedding was generated and the store write failed.
AddDocumentAllOrNothingWitness ==
  /\ InAddDocument
  /\ docPc = "failed"
  /\ embPc = "returned"
  /\ storeCalls = 1
  /\ docError = "DOCUMENT_ADDITION_FAILED"

\* C18: an add with empty content fails, through the tool handler and through
\* addDocument itself, and up to its failure no WeaviateService method and no
\* provider call has been made.
EmptyContentFailsEarly ==
  (docOp = "add" /\ docReq.content.text = << >>) =>
    /\ docPc \in {"addEmbedding", "failed"}
    /\ storeCalls = 0
    /\ storeWrites = 0
    /\ embRetry.calls = 0
    /\ docVia = "tool" => (docPc = "failed" /\ embPc = "idle")
    /\ docPc = "failed" =>
         docError = IF docVia = "tool" THEN "INVALID_CONTENT"
                    ELSE "DOCUMENT_ADDITION_FAILED"

\* C18 witness: addDocument called directly with "" has failed on the
\* EMPTY_TEXT of the embedding service.
EmptyContentFailsEarlyWitness ==
  /\ docOp = "add"
  /\ docVia = "direct"
  /\ docReq.content.text = << >>
  /\ docPc = "failed"
  /\ embError = "EMPTY_TEXT"

\* C19: updateDocument on an id the store has no object for fails with
\* DOCUMENT_NOT_FOUND (or with the DOCUMENT_RETRIEVAL_FAILED of a lookup that
\* itself failed), never with DOCUMENT_UPDATE_FAILED; only the lookup is made
\* on the store, nothing is written and no embedding is generated.
UpdateAbsentIsNotFound ==
  (docOp = "update" /\ ~store[docReq.id].present) =>
    /\ docPc \in {"updGetting", "failed"}
    /\ docPc = "failed" =>
         docError \in {"DOCUMENT_NOT_FOUND", "DOCUMENT_RETRIEVAL_FAILED"}
    /\ embPc = "idle"
    /\ storeCalls = 1
    /\ storeWrites = 0

\* C19 witness: an update supplying a content, on an absent id, has failed
\* with DOCUMENT_NOT_FOUND.
UpdateAbsentIsNotFoundWitness ==
  /\ docOp = "update"
  /\ ~store[docReq.id].present
  /\ SuppliesContent(docReq)
  /\ docPc = "failed"
  /\ docError = "DOCUMENT_NOT_FOUND"

\* C20: an update of an existing document generates an embedding exactly
\* when it supplies a (non-empty) content; the document it returns and the
\* stored object carry the time of the update as updated_at, title, content
\* and metadata are those of the update where it supplies them and those of
\* the existing document otherwise, and id, created_at, chunks and version
\* are those of the existing document.
UpdateMergesFields ==
  /\ (docOp = "update" /\ embPc # "idle") => SuppliesContent(docReq)
  /\ (docOp = "update" /\ docPc \in {"updStoring", "returned"}) =>
       (SuppliesContent(docReq) <=> embPc = "returned")
  /\ (docOp = "update" /\ docPc = "returned") =>
       /\ doc.updated_at = clock
       /\ store[docReq.id].updated_at = clock
       /\ existingDocument.updated_at < clock
       /\ doc.embedding =
            IF SuppliesContent(docReq)
              THEN Vec(SanitizeText(docReq.content.text))
              ELSE existingDocument.embedding
       /\ doc.content = IF SuppliesContent(docReq) THEN docReq.content.text
                        ELSE existingDocument.content
       /\ doc.title = IF docReq.title # "" THEN docReq.title
                      ELSE existingDocument.title
       /\ doc.metadata = IF docReq.metadata # "" THEN docReq.metadata
                         ELSE existingDocument.metadata
       /\ doc.id = docReq.id
       /\ doc.id = existingDocument.id
       /\ doc.created_at = existingDocument.created_at
       /\ doc.chunks = existingDocument.chunks
       /\ doc.version = existingDocument.version
       /\ store[docReq.id].created_at = existingDocument.created_at

\* C20 witness: an update supplying a new content and no title has returned.
UpdateMergesFieldsWitness ==
  /\ docOp = "update"
  /\ docPc = "returned"
  /\ SuppliesContent(docReq)
  /\ docReq.title = ""
  /\ doc.content # existingDocument.content
  /\ doc.title = existingDocument.title

\* ---------------------------------------------- further properties
\* C26: in addDocumentWithChunks the batch embedding keeps order and
\* cardinality: there are as many vectors as chunks and chunk i of the
\* document carries the vector generated for the text of chunk i.
BatchKeepsOrderAndCardinality ==
  /\ awcPc \in {"embedded", "documentEmbedded", "completed"} =>
       Len(chunkEmbeddings) = Len(chunks)
  /\ \A i \in 1..Len(docChunks) :
       docChunks[i].embedding = Vec(SanitizeText(chunks[i]))

\* C29: once an updateDocument that changed the content has returned, the
\* vector the store holds for the id is the embedding of the returned
\* document, that of the new content.
StoredVectorFollowsUpdate ==
  (docOp = "update" /\ docPc = "returned"
     /\ doc.content # existingDocument.content) =>
    /\ store[docReq.id].vector = doc.embedding
    /\ store[docReq.id].vector = Vec(SanitizeText(doc.content))

\* C30: at most one interval timer is live at any time, and a
\* stopAutoIndexing() that cleared a timer leaves none live.
AtMostOneTimerLive ==
  /\ Cardinality(liveTimers) <= 1
  /\ out = "stopped" => liveTimers = {}

ResultsMeetThreshold ==
  srchPc = "returned" =>
    /\ \A i \in 1..Len(srchResults) :
         srchResults[i].score >= srchQuery.similarity_threshold
    /\ srchQuery.similarity_threshold > 90 => srchResults = << >>

\* C22 witness: a search with threshold 0.95 whose query is in the title of a
\* stored document (score 0.9) has returned the empty list.
ResultsMeetThresholdWitness ==
  /\ srchPc = "returned"
  /\ srchQuery.similarity_threshold = 95
  /\ srchQuery.offset = 0
  /\ \E id \in Ids : store[id].present /\ Score(store[id], srchQuery.query) = 90
  /\ srchResults = << >>

\* C23: a search whose filters name tags returns only documents whose
\* metadata tags contain them.
ResultsCarryFilterTags ==
  srchPc = "returned" =>
    \A i \in 1..Len(srchResults) :
      srchQuery.tags \subseteq Tags(srchResults[i].document.metadata)

\* C24: no document a searchDocuments returned is still "processing" in the
\* addDocument that creates it.
SearchSeesOnlyCompleted ==
  \A i \in 1..Len(srchResults) :
    ~(/\ InAddDocument
      /\ doc.id = srchResults[i].document.id
      /\ doc.status # "completed")

\* C25: for vectors of equal length calculateCosineSimilarity returns a
\* number in [0,1]: 0 when either vector has zero magnitude, 1 for a nonzero
\* vector and itself, 0 for orthogonal vectors.
CosineInUnitInterval ==
  (cosPc = "returned" /\ Len(vectorA) = Len(vectorB)) =>
    LET dotProduct == SumProducts(vectorA, vectorB, Len(vectorA))
        normA == SumProducts(vectorA, vectorA, Len(vectorA))
        normB == SumProducts(vectorB, vectorB, Len(vectorB))
    IN  /\ cosResult.kind = "number"
        /\ cosResult.num >= 0
        /\ cosResult.num * cosResult.num <= cosResult.den
        /\ (normA = 0 \/ normB = 0) => cosResult.num = 0
        /\ (vectorA = vectorB /\ normA > 0) => cosResult = Number(1, 1)
        /\ dotProduct = 0 => cosResult.num = 0

\* C27: getFilesRecursively is never called on a directory that is, or lies
\* below, a directory of the exclusion set (node_modules, .git, dist), and
\* every path it returns is a regular file with an allowlisted extension.
NeverEntersExcluded ==
  /\ \A path \in walkEntered :
       \A i \in 1..Len(path) : path[i] \notin StructureSkippedNames
  /\ \A i \in 1..Len(walkFiles) :
       LET item == walkFiles[i][Len(walkFiles[i])]
       IN  Kind(item) = "file" /\ Extname(item) \in Extensions

\* C28: when indexDirectory is done, every allowlisted regular file of the
\* directories that were listed has been returned, whatever readdir and stat
\* calls failed, and indexFile has been called for every returned file, in
\* order, whatever calls of it failed.
ScanSurvivesFailures ==
  walkPc = "done" =>
    /\ walkExpected \subseteq {walkFiles[i] : i \in 1..Len(walkFiles)}
    /\ Len(walkIndexed) = Len(walkFiles)
    /\ \A i \in 1..Len(walkFiles) : walkIndexed[i].file = walkFiles[i]

====
